---- MODULE Spec2Model ----
(***************************************************************************)
(* A model of goaoc.Run (github.com/hvpaiva/goaoc): the resolution of the  *)
(* challenge part from the run options, the command-line flag, the         *)
(* environment and stdin; the dispatch to one of the two challenge         *)
(* functions; and the report of the result to the console and clipboard.   *)
(*                                                                         *)
(* Strings are sequences of symbols.  A symbol is one character, except    *)
(* that the flag names "part", "test" and "h" are each written as a single *)
(* symbol.                                                                 *)
(***************************************************************************)
EXTENDS Integers, Sequences, FiniteSets, TLC

VARIABLES
    input,        \* the input string handed to Run
    args,         \* Env.Args: a sequence of strings
    envPart,      \* value of GOAOC_CHALLENGE_PART ("" when unset)
    envDisable,   \* value of GOAOC_DISABLE_COPY_CLIPBOARD ("" when unset)
    stdin,        \* the content of Env.Stdin
    stdinPos,     \* number of symbols of stdin consumed so far
    optsLeft,     \* options of the variadic list not yet applied
    opts,         \* runOptions: [manager, part]
    pc,           \* position of the control flow inside Run
    part,         \* Read's named result "part"
    err,          \* Read's named result "err"
    readCalls,    \* number of calls of manager.Read made by Run
    tried,        \* lines whose write to the output sink was attempted
    out,          \* lines the output sink accepted
    calls,        \* invocations of the challenge functions, in order
    result,       \* executeChallenge's result
    written,      \* strings passed to manager.Write, in order
    clipboard,    \* values the clipboard accepted, in order
    runErr        \* the error Run returned (meaningful when pc = "done")

vars == <<input, args, envPart, envDisable, stdin, stdinPos, optsLeft, opts,
          pc, part, err, readCalls, tried, out, calls, result, written, clipboard,
          runErr>>

(***************************************************************************)
(* Bounds and input domains                                                *)
(***************************************************************************)
MaxOpts == 2

MaxPart == 3

\* Arguments the caller may give to WithPart.
PartArgs == (0 - 1) .. MaxPart

\* Values a challenge function may return.
ResultInts == {0 - 7, 0, 24, 42}

Inputs == { <<"a", "b", "c">> }

\* Command lines: none, -part=1, -part=, -part=s, -part=3, --test,
\* -part (value missing), -part 2, x -part=1, -part=1 --test, -h.
ArgLists ==
    { <<>>,
      << <<"-", "part", "=", "1">> >>,
      << <<"-", "part", "=">> >>,
      << <<"-", "part", "=", "s">> >>,
      << <<"-", "-", "part", "=", "3">> >>,
      << <<"-", "-", "test">> >>,
      << <<"-", "part">> >>,
      << <<"-", "part">>, <<"2">> >>,
      << <<"x">>, <<"-", "part", "=", "1">> >>,
      << <<"-", "part", "=", "1">>, <<"-", "test">> >>,
      << <<"-", "h">> >> }

\* Values of GOAOC_CHALLENGE_PART.
EnvParts == { <<>>, <<"2">>, <<"+", "1">>, <<"s", "s">>, <<"0">> }

\* Values of GOAOC_DISABLE_COPY_CLIPBOARD.
EnvDisables == { "", "true", "TRUE", "false", "1" }

\* Contents of stdin.
StdinContents ==
    { <<>>,
      <<"1", "\n">>,
      <<"\n">>,
      <<"2">>,
      <<" ", "\n">>,
      <<"1", " ", "2", "\n">>,
      <<" ", "s", "\n">>,
      <<"-", "1", "\n">> }

\* Strings a caller-supplied manager's Read may return.
CustomParts ==
    { <<>>, <<"1">>, <<"2">>, <<"0">>, <<"3">>, <<"-", "2">>, <<"0", "1">>,
      <<"s", "s">>, <<"t", "r", "u", "e">>, <<"1", "s">>, <<" ", "1">>,
      <<"-">> }

(***************************************************************************)
(* Errors                                                                  *)
(***************************************************************************)
Error(t, m, p) == [type |-> t, msg |-> m, part |-> p]

NoError == Error("nil", "", 0)

ErrInvalidPartType == Error("errorString", "invalid part type. The part type allowed is int", 0)

ErrMissingPart == Error("errorString", "no part specified, please provide a valid part", 0)

InvalidPartError(p) == Error("InvalidPartError", "", p)

IOReadError(e) == Error("IOReadError", e.msg, 0)

IOWriteError(e) == Error("IOWriteError", e.msg, 0)

\* The error of a writer that rejects a write.
ErrWriteFailed == Error("errorString", "write failed", 0)

\* Errors of the flag package.
ErrHelp == Error("errorString", "flag: help requested", 0)

ErrBadFlagSyntax == Error("errorString", "bad flag syntax", 0)

ErrFlagNotDefined == Error("errorString", "flag provided but not defined", 0)

ErrFlagNeedsArgument == Error("errorString", "flag needs an argument", 0)

\* Errors of a caller-supplied manager.
ErrCustomRead == Error("errorString", "error when calling Read", 0)

ErrCustomWrite == Error("errorString", "output failed", 0)

(***************************************************************************)
(* strconv.Atoi and strconv.Itoa, for integers of a few digits             *)
(***************************************************************************)
Digits == <<"0", "1", "2", "3", "4", "5", "6", "7", "8", "9">>

IsDigit(c) == \E d \in 1 .. 10 : Digits[d] = c

DigitVal(c) == (CHOOSE d \in 1 .. 10 : Digits[d] = c) - 1

RECURSIVE DigitsValue(_)
DigitsValue(s) ==
    IF s = <<>> THEN 0
    ELSE DigitsValue(SubSeq(s, 1, Len(s) - 1)) * 10 + DigitVal(s[Len(s)])

\* A lenient Atoi, as C's atoi: the leading digits decide, the rest is
\* ignored, and no digit at all gives 0.
RECURSIVE LeadingDigits(_)
LeadingDigits(s) ==
    IF s = <<>> \/ ~IsDigit(Head(s)) THEN <<>>
    ELSE <<Head(s)>> \o LeadingDigits(Tail(s))

AtoiLenient(s) ==
    LET signed == Len(s) > 0 /\ s[1] \in {"-", "+"}
        body == LeadingDigits(IF signed THEN Tail(s) ELSE s)
    IN  [ok |-> TRUE,
         n |-> IF signed /\ s[1] = "-" THEN 0 - DigitsValue(body) ELSE DigitsValue(body)]

\* Atoi(s) = [ok, n]: ok is FALSE for a syntax error.
Atoi(s) ==
    LET signed == Len(s) > 0 /\ s[1] \in {"-", "+"}
        body == IF signed THEN Tail(s) ELSE s
    IN  IF Len(s) = 0 \/ Len(body) < 1 \/ \E i \in 1 .. Len(body) : ~IsDigit(body[i])
        THEN [ok |-> FALSE, n |-> 0]
        ELSE [ok |-> TRUE,
              n |-> IF s[1] = "-" THEN 0 - DigitsValue(body) ELSE DigitsValue(body)]

RECURSIVE FormatNat(_)
FormatNat(n) ==
    IF n < 10 THEN <<Digits[n + 1]>>
    ELSE FormatNat(n \div 10) \o <<Digits[(n % 10) + 1]>>

Itoa(n) == IF n < 0 THEN <<"-">> \o FormatNat(0 - n) ELSE FormatNat(n)

(***************************************************************************)
(* NewPart                                                                 *)
(***************************************************************************)
\* NewPart with the range check off by one at its lower end.
NewPartFromZero(p) ==
    IF p < 0 \/ p > 2
    THEN [part |-> 0, err |-> InvalidPartError(p)]
    ELSE [part |-> p, err |-> NoError]

NewPart(p) ==
    IF p # 1 /\ p # 2
    THEN [part |-> 0, err |-> InvalidPartError(p)]
    ELSE [part |-> p, err |-> NoError]

(***************************************************************************)
(* The output sink                                                         *)
(***************************************************************************)
Line(kind, text) == [kind |-> kind, text |-> text]

PromptLine == Line("prompt", <<>>)

ResultLine(r) == Line("result", r)

\* Every subsequence of lines: the lines a sink accepts when each write may
\* be rejected and the writer ignores the rejection.
RECURSIVE Accepted(_)
Accepted(lines) ==
    IF lines = <<>> THEN { <<>> }
    ELSE LET rest == Accepted(Tail(lines)) IN
         rest \cup { <<Head(lines)>> \o r : r \in rest }

(***************************************************************************)
(* The flag set of getPartInFlag: one string flag "part", default "",      *)
(* parsed with flag.ContinueOnError.  A failure prints the error, the      *)
(* usage line and the flag defaults on the flag set's output.              *)
(***************************************************************************)
FailLines == <<Line("flagerr", <<>>), Line("usage", <<>>), Line("defaults", <<>>)>>

HelpLines == <<Line("usage", <<>>), Line("defaults", <<>>)>>

\* Index of the first "=" of name at position 2 or later, 0 if none.
EqualsAt(name) ==
    IF \E i \in 2 .. Len(name) : name[i] = "="
    THEN CHOOSE i \in 2 .. Len(name) :
            /\ name[i] = "="
            /\ \A j \in 2 .. (i - 1) : name[j] # "="
    ELSE 0

\* FlagSet.Parse: [part, err, lines], the flag's final value, the error and
\* the lines printed on the flag set's output.
RECURSIVE ParseFlags(_, _)
ParseFlags(a, cur) ==
    LET stop == [part |-> cur, err |-> NoError, lines |-> <<>>]
        fail(e) == [part |-> cur, err |-> e, lines |-> FailLines]
    IN  IF Len(a) = 0 THEN stop
        ELSE
        LET s == Head(a) IN
        IF Len(s) < 2 \/ s[1] # "-" THEN stop
        ELSE
        LET numMinuses == IF s[2] = "-" THEN 2 ELSE 1 IN
        IF numMinuses = 2 /\ Len(s) = 2 THEN stop
        ELSE
        LET name0 == SubSeq(s, numMinuses + 1, Len(s)) IN
        IF Len(name0) = 0 \/ name0[1] = "-" \/ name0[1] = "=" THEN fail(ErrBadFlagSyntax)
        ELSE
        LET eq == EqualsAt(name0)
            name == IF eq = 0 THEN name0 ELSE SubSeq(name0, 1, eq - 1)
            rest == Tail(a)
        IN
        IF name # <<"part">>
        THEN IF name = <<"help">> \/ name = <<"h">>
             THEN [part |-> cur, err |-> ErrHelp, lines |-> HelpLines]
             ELSE fail(ErrFlagNotDefined)
        ELSE IF eq # 0 THEN ParseFlags(rest, SubSeq(name0, eq + 1, Len(name0)))
        ELSE IF Len(rest) > 0 THEN ParseFlags(Tail(rest), Head(rest))
        ELSE fail(ErrFlagNeedsArgument)

\* getPartInFlag: the value it returns, its error and the lines it prints.
getPartInFlag(a) ==
    LET p == ParseFlags(a, <<>>) IN
    IF p.err # NoError
    THEN [part |-> <<>>, err |-> IOReadError(p.err), lines |-> p.lines]
    ELSE [part |-> p.part, err |-> NoError, lines |-> <<>>]

\* getPartInEnv
getPartInEnv(e) == [part |-> e, err |-> NoError]

(***************************************************************************)
(* fmt.Fscanln(stdin, &part) with one string operand                       *)
(***************************************************************************)
IsBlank(c) == c = " " \/ c = "\t"

\* First index >= i of s that holds no blank (Len(s) + 1 if none).
SkipBlanks(s, i) ==
    CHOOSE j \in i .. (Len(s) + 1) :
        /\ j = Len(s) + 1 \/ ~IsBlank(s[j])
        /\ \A k \in i .. (j - 1) : IsBlank(s[k])

\* First index >= i of s that holds a blank or a newline (Len(s) + 1 if none).
TokenEnd(s, i) ==
    CHOOSE j \in i .. (Len(s) + 1) :
        /\ j = Len(s) + 1 \/ IsBlank(s[j]) \/ s[j] = "\n"
        /\ \A k \in i .. (j - 1) : ~IsBlank(s[k]) /\ s[k] # "\n"

\* [part, err, pos]: the operand after the scan, the scan's error ("" for
\* nil) and the number of symbols consumed.
Fscanln(s) ==
    LET i == SkipBlanks(s, 1) IN
    IF i > Len(s) THEN [part |-> <<>>, err |-> "EOF", pos |-> Len(s)]
    ELSE IF s[i] = "\n" THEN [part |-> <<>>, err |-> "unexpected newline", pos |-> i]
    ELSE
    LET j == TokenEnd(s, i)
        k == SkipBlanks(s, j)
    IN  IF k > Len(s) THEN [part |-> SubSeq(s, i, j - 1), err |-> "", pos |-> Len(s)]
        ELSE IF s[k] = "\n" THEN [part |-> SubSeq(s, i, j - 1), err |-> "", pos |-> k]
        ELSE [part |-> SubSeq(s, i, j - 1), err |-> "expected newline", pos |-> k]

\* The part of getPartInStdin after the prompt was written.
ScanPart(s) ==
    LET r == Fscanln(s) IN
    IF r.err = "EOF"
    THEN [part |-> <<>>, err |-> IOReadError(ErrMissingPart), pos |-> r.pos]
    ELSE [part |-> r.part, err |-> NoError, pos |-> r.pos]

(***************************************************************************)
(* Run                                                                     *)
(***************************************************************************)
Init ==
    /\ input \in Inputs
    /\ args \in ArgLists
    /\ envPart \in EnvParts
    /\ envDisable \in EnvDisables
    /\ stdin \in StdinContents
    /\ stdinPos = 0
    /\ optsLeft \in 0 .. MaxOpts
    /\ opts = [manager |-> "nil", part |-> 0]
    /\ pc = "options"
    /\ part = <<>>
    /\ err = NoError
    /\ readCalls = 0
    /\ tried = <<>>
    /\ out = <<>>
    /\ calls = <<>>
    /\ result = 0
    /\ written = <<>>
    /\ clipboard = <<>>
    /\ runErr = NoError

\* Run returns e.
Return(e) ==
    /\ pc' = "done"
    /\ runErr' = e

\* WithPart(p), applied to the options.
WithPart(p) ==
    /\ opts' = [opts EXCEPT !.part = p]

\* WithManager(m), applied to the options.
WithManager(m) ==
    /\ opts' = [opts EXCEPT !.manager = m]

\* injectOptions, one turn of the loop over the options.
ApplyOption ==
    /\ pc = "options"
    /\ optsLeft > 0
    /\ optsLeft' = optsLeft - 1
    /\ \/ \E p \in PartArgs : WithPart(p)
       \/ \E m \in {"nil", "console", "custom"} : WithManager(m)
    /\ UNCHANGED <<input, args, envPart, envDisable, stdin, stdinPos, pc, part,
                   err, readCalls, tried, out, calls, result, written, clipboard, runErr>>

\* injectOptions reading the part whether or not an option set it.
DefaultManagerAlwaysRead ==
    /\ pc = "options"
    /\ optsLeft = 0
    /\ opts' = [opts EXCEPT !.manager = IF @ = "nil" THEN "console" ELSE @]
    /\ pc' = "read"
    /\ UNCHANGED <<input, args, envPart, envDisable, stdin, stdinPos, optsLeft,
                   part, err, readCalls, tried, out, calls, result, written,
                   clipboard, runErr>>

\* injectOptions after the loop: the default manager, and whether the part
\* has to be read.
DefaultManager ==
    /\ pc = "options"
    /\ optsLeft = 0
    /\ opts' = [opts EXCEPT !.manager = IF @ = "nil" THEN "console" ELSE @]
    /\ pc' = IF opts.part = 0 THEN "read" ELSE "execute"
    /\ UNCHANGED <<input, args, envPart, envDisable, stdin, stdinPos, optsLeft,
                   part, err, readCalls, tried, out, calls, result, written, clipboard,
                   runErr>>

\* DefaultConsoleManager.Read is entered with arg = "part".
ConsoleRead ==
    /\ pc = "read"
    /\ opts.manager = "console"
    /\ readCalls' = readCalls + 1
    /\ pc' = "flag"
    /\ UNCHANGED <<input, args, envPart, envDisable, stdin, stdinPos, optsLeft,
                   opts, part, err, tried, out, calls, result, written, clipboard, runErr>>

\* Read of a caller-supplied manager: it returns what its author chose.
CustomRead ==
    /\ pc = "read"
    /\ opts.manager = "custom"
    /\ readCalls' = readCalls + 1
    /\ \E p \in CustomParts, e \in {NoError, ErrCustomRead} :
          /\ part' = p
          /\ err' = e
    /\ pc' = "parse"
    /\ UNCHANGED <<input, args, envPart, envDisable, stdin, stdinPos, optsLeft,
                   opts, tried, out, calls, result, written, clipboard, runErr>>

\* The first check with the loop going on after a non-empty value, so that
\* the last source with a value wins.
CheckFlagLastWins ==
    /\ pc = "flag"
    /\ LET r == getPartInFlag(args) IN
          /\ part' = r.part
          /\ err' = r.err
          /\ tried' = tried \o r.lines
          /\ \E w \in Accepted(r.lines) : out' = out \o w
          /\ pc' = IF r.err # NoError THEN "parse" ELSE "env"
    /\ UNCHANGED <<input, args, envPart, envDisable, stdin, stdinPos, optsLeft,
                   opts, readCalls, calls, result, written, clipboard, runErr>>

\* The first check with a parse failure swallowed: the chain goes on to the
\* environment variable.
CheckFlagSwallow ==
    /\ pc = "flag"
    /\ LET r == getPartInFlag(args) IN
          /\ part' = r.part
          /\ err' = NoError
          /\ tried' = tried \o r.lines
          /\ \E w \in Accepted(r.lines) : out' = out \o w
          /\ pc' = IF r.part # <<>> THEN "parse" ELSE "env"
    /\ UNCHANGED <<input, args, envPart, envDisable, stdin, stdinPos, optsLeft,
                   opts, readCalls, calls, result, written, clipboard, runErr>>

\* Read, first check: the command-line flag.
CheckFlag ==
    /\ pc = "flag"
    /\ LET r == getPartInFlag(args) IN
          /\ part' = r.part
          /\ err' = r.err
          /\ tried' = tried \o r.lines
          /\ \E w \in Accepted(r.lines) : out' = out \o w
          /\ pc' = IF r.err # NoError \/ r.part # <<>> THEN "parse" ELSE "env"
    /\ UNCHANGED <<input, args, envPart, envDisable, stdin, stdinPos, optsLeft,
                   opts, readCalls, calls, result, written, clipboard, runErr>>

\* The second check with the loop going on to stdin whatever the variable
\* holds.
CheckEnvFallThrough ==
    /\ pc = "env"
    /\ LET r == getPartInEnv(envPart) IN
          /\ part' = r.part
          /\ err' = r.err
          /\ pc' = "prompt"
    /\ UNCHANGED <<input, args, envDisable, envPart, stdin, stdinPos, optsLeft,
                   opts, readCalls, tried, out, calls, result, written, clipboard,
                   runErr>>

\* Read, second check: the environment variable.
CheckEnv ==
    /\ pc = "env"
    /\ LET r == getPartInEnv(envPart) IN
          /\ part' = r.part
          /\ err' = r.err
          /\ pc' = IF r.err # NoError \/ r.part # <<>> THEN "parse" ELSE "prompt"
    /\ UNCHANGED <<input, args, envDisable, envPart, stdin, stdinPos, optsLeft,
                   opts, readCalls, tried, out, calls, result, written, clipboard, runErr>>

\* Read, third check, getPartInStdin: the prompt is written; a rejected
\* write ends Read with the writer's error.
Prompt ==
    /\ pc = "prompt"
    /\ tried' = Append(tried, PromptLine)
    /\ \/ /\ out' = Append(out, PromptLine)
          /\ pc' = "scan"
          /\ UNCHANGED <<part, err>>
       \/ /\ part' = <<>>
          /\ err' = ErrWriteFailed
          /\ pc' = "parse"
          /\ UNCHANGED out
    /\ UNCHANGED <<input, args, envPart, envDisable, stdin, stdinPos, optsLeft,
                   opts, readCalls, calls, result, written, clipboard, runErr>>

\* The scan with Read returning the empty part and no error when no check
\* gave a part.
ScanNoMissing ==
    /\ pc = "scan"
    /\ LET r == ScanPart(stdin) IN
          /\ stdinPos' = r.pos
          /\ part' = r.part
          /\ err' = NoError
    /\ pc' = "parse"
    /\ UNCHANGED <<input, args, envPart, envDisable, stdin, optsLeft, opts,
                   readCalls, tried, out, calls, result, written, clipboard,
                   runErr>>

\* Read, third check, getPartInStdin: the line is scanned; when no check
\* gave a part Read ends with the missing-part error.
Scan ==
    /\ pc = "scan"
    /\ LET r == ScanPart(stdin) IN
          /\ stdinPos' = r.pos
          /\ part' = r.part
          /\ err' = IF r.err = NoError /\ r.part = <<>>
                    THEN IOReadError(ErrMissingPart)
                    ELSE r.err
    /\ pc' = "parse"
    /\ UNCHANGED <<input, args, envPart, envDisable, stdin, optsLeft, opts,
                   readCalls, tried, out, calls, result, written, clipboard, runErr>>

\* injectOptions going on to strconv.Atoi with the string Read returned
\* whether or not Read returned an error.
ParsePartIgnoreReadError ==
    /\ pc = "parse"
    /\ LET a == Atoi(part) IN
       IF ~a.ok
       THEN Return(IF err # NoError THEN err ELSE ErrInvalidPartType) /\ UNCHANGED opts
       ELSE LET np == NewPart(a.n) IN
            /\ opts' = [opts EXCEPT !.part = np.part]
            /\ IF np.err # NoError
               THEN Return(np.err)
               ELSE pc' = "execute" /\ UNCHANGED runErr
    /\ UNCHANGED <<input, args, envPart, envDisable, stdin, stdinPos, optsLeft,
                   part, err, readCalls, tried, out, calls, result, written, clipboard>>

\* injectOptions after Read returned: strconv.Atoi, then NewPart.
ParsePart ==
    /\ pc = "parse"
    /\ IF err # NoError
       THEN Return(err) /\ UNCHANGED opts
       ELSE LET a == Atoi(part) IN
            IF ~a.ok
            THEN Return(ErrInvalidPartType) /\ UNCHANGED opts
            ELSE LET np == NewPart(a.n) IN
                 /\ opts' = [opts EXCEPT !.part = np.part]
                 /\ IF np.err # NoError
                    THEN Return(np.err)
                    ELSE pc' = "execute" /\ UNCHANGED runErr
    /\ UNCHANGED <<input, args, envPart, envDisable, stdin, stdinPos, optsLeft,
                   part, err, readCalls, tried, out, calls, result, written, clipboard>>

\* A challenge function is invoked: it returns what its author chose.
Invoke(fn) ==
    /\ calls' = Append(calls, [fn |-> fn, input |-> input])
    /\ \E r \in ResultInts : result' = r
    /\ pc' = "write"

\* executeChallenge with the two cases of the switch exchanged.
executeChallengeSwapped ==
    /\ pc = "execute"
    /\ \/ /\ opts.part = 1
          /\ Invoke("partTwo")
       \/ /\ opts.part = 2
          /\ Invoke("partOne")
       \/ /\ opts.part \notin {1, 2}
          /\ pc' = "panic"
          /\ UNCHANGED <<calls, result>>
    /\ UNCHANGED <<input, args, envPart, envDisable, stdin, stdinPos, optsLeft,
                   opts, part, err, readCalls, tried, out, written, clipboard,
                   runErr>>

\* executeChallenge
executeChallenge ==
    /\ pc = "execute"
    /\ \/ /\ opts.part = 1
          /\ Invoke("partOne")
       \/ /\ opts.part = 2
          /\ Invoke("partTwo")
       \/ /\ opts.part \notin {1, 2}
          /\ pc' = "panic"
          /\ UNCHANGED <<calls, result>>
    /\ UNCHANGED <<input, args, envPart, envDisable, stdin, stdinPos, optsLeft,
                   opts, part, err, readCalls, tried, out, written, clipboard, runErr>>

\* Write going on to the clipboard when the sink rejected the result line.
ConsoleWriteIgnoreFailure ==
    /\ pc = "write"
    /\ opts.manager = "console"
    /\ written' = Append(written, Itoa(result))
    /\ tried' = Append(tried, ResultLine(Itoa(result)))
    /\ \/ out' = Append(out, ResultLine(Itoa(result)))
       \/ UNCHANGED out
    /\ pc' = "clipboard"
    /\ UNCHANGED <<input, args, envPart, envDisable, stdin, stdinPos, optsLeft,
                   opts, part, err, readCalls, calls, result, clipboard, runErr>>

\* Write copying to the clipboard, and reporting it, before the result line.
ConsoleWriteStatusFirst ==
    /\ pc = "write"
    /\ opts.manager = "console"
    /\ LET value == Itoa(result) IN
          /\ written' = Append(written, value)
          /\ clipboard' = Append(clipboard, value)
          /\ tried' = tried \o <<Line("copied", value), ResultLine(value)>>
          /\ out' = out \o <<Line("copied", value), ResultLine(value)>>
    /\ Return(NoError)
    /\ UNCHANGED <<input, args, envPart, envDisable, stdin, stdinPos, optsLeft,
                   opts, part, err, readCalls, calls, result>>

\* Run calls DefaultConsoleManager.Write: the result line.
ConsoleWrite ==
    /\ pc = "write"
    /\ opts.manager = "console"
    /\ written' = Append(written, Itoa(result))
    /\ tried' = Append(tried, ResultLine(Itoa(result)))
    /\ \/ /\ out' = Append(out, ResultLine(Itoa(result)))
          /\ pc' = "clipboard"
          /\ UNCHANGED runErr
       \/ /\ Return(IOWriteError(ErrWriteFailed))
          /\ UNCHANGED out
    /\ UNCHANGED <<input, args, envPart, envDisable, stdin, stdinPos, optsLeft,
                   opts, part, err, readCalls, calls, result, clipboard>>

\* toClipboard with a failed copy returned as the error of Write.
toClipboardFatal ==
    /\ pc = "clipboard"
    /\ LET value == written[Len(written)] IN
       \/ /\ envDisable = "true"
          /\ UNCHANGED <<tried, out, clipboard>>
          /\ Return(NoError)
       \/ /\ envDisable # "true"
          /\ UNCHANGED clipboard
          /\ tried' = Append(tried, Line("cliperr", <<>>))
          /\ \E w \in Accepted(<<Line("cliperr", <<>>)>>) : out' = out \o w
          /\ Return(IOWriteError(Error("errorString", "clipboard", 0)))
       \/ /\ envDisable # "true"
          /\ clipboard' = Append(clipboard, value)
          /\ tried' = Append(tried, Line("copied", value))
          /\ \E w \in Accepted(<<Line("copied", value)>>) : out' = out \o w
          /\ Return(NoError)
    /\ UNCHANGED <<input, args, envPart, envDisable, stdin, stdinPos, optsLeft,
                   opts, part, err, readCalls, calls, result, written>>

\* toClipboard with the variable compared without regard to case.
toClipboardAnyCase ==
    /\ pc = "clipboard"
    /\ LET value == written[Len(written)]
           disabled == envDisable \in {"true", "TRUE"}
       IN
       \/ /\ disabled
          /\ UNCHANGED <<tried, out, clipboard>>
       \/ /\ ~disabled
          /\ UNCHANGED clipboard
          /\ tried' = Append(tried, Line("cliperr", <<>>))
          /\ \E w \in Accepted(<<Line("cliperr", <<>>)>>) : out' = out \o w
       \/ /\ ~disabled
          /\ clipboard' = Append(clipboard, value)
          /\ tried' = Append(tried, Line("copied", value))
          /\ \E w \in Accepted(<<Line("copied", value)>>) : out' = out \o w
    /\ Return(NoError)
    /\ UNCHANGED <<input, args, envPart, envDisable, stdin, stdinPos, optsLeft,
                   opts, part, err, readCalls, calls, result, written>>

\* toClipboard, then Write and Run return nil.
toClipboard ==
    /\ pc = "clipboard"
    /\ LET value == written[Len(written)] IN
       \/ /\ envDisable = "true"
          /\ UNCHANGED <<tried, out, clipboard>>
       \/ /\ envDisable # "true"
          /\ UNCHANGED clipboard
          /\ tried' = Append(tried, Line("cliperr", <<>>))
          /\ \E w \in Accepted(<<Line("cliperr", <<>>)>>) : out' = out \o w
       \/ /\ envDisable # "true"
          /\ clipboard' = Append(clipboard, value)
          /\ tried' = Append(tried, Line("copied", value))
          /\ \E w \in Accepted(<<Line("copied", value)>>) : out' = out \o w
    /\ Return(NoError)
    /\ UNCHANGED <<input, args, envPart, envDisable, stdin, stdinPos, optsLeft,
                   opts, part, err, readCalls, calls, result, written>>

\* Run calls the Write of a caller-supplied manager: it fails, or it writes
\* the result line to its sink and returns that write's error.
CustomWrite ==
    /\ pc = "write"
    /\ opts.manager = "custom"
    /\ written' = Append(written, Itoa(result))
    /\ \/ /\ Return(ErrCustomWrite)
          /\ UNCHANGED <<tried, out>>
       \/ /\ tried' = Append(tried, ResultLine(Itoa(result)))
          /\ out' = Append(out, ResultLine(Itoa(result)))
          /\ Return(NoError)
       \/ /\ tried' = Append(tried, ResultLine(Itoa(result)))
          /\ Return(ErrWriteFailed)
          /\ UNCHANGED out
    /\ UNCHANGED <<input, args, envPart, envDisable, stdin, stdinPos, optsLeft,
                   opts, part, err, readCalls, calls, result, clipboard>>

Next ==
    \/ ApplyOption
    \/ DefaultManager
    \/ ConsoleRead
    \/ CustomRead
    \/ CheckFlag
    \/ CheckEnv
    \/ Prompt
    \/ Scan
    \/ ParsePart
    \/ executeChallenge
    \/ ConsoleWrite
    \/ toClipboard
    \/ CustomWrite

Spec == Init /\ [][Next]_vars

(***************************************************************************)
(* Vocabulary of the properties                                            *)
(***************************************************************************)
\* Number of lines of seq of the given kind.
Count(seq, kind) == Cardinality({i \in DOMAIN seq : seq[i].kind = kind})

\* Read was called and has returned: part and err hold what it returned.
ReadReturned ==
    /\ readCalls = 1
    /\ pc \in {"parse", "execute", "write", "clipboard", "done", "panic"}

\* injectOptions is past strconv.Atoi and NewPart.
Resolved == ReadReturned /\ pc # "parse"

\* s is an optional sign followed by one or more decimal digits.
IsInteger(s) ==
    LET body == IF s # <<>> /\ s[1] \in {"+", "-"} THEN Tail(s) ELSE s IN
    /\ body # <<>>
    /\ \A i \in DOMAIN body :
          body[i] \in {"0", "1", "2", "3", "4", "5", "6", "7", "8", "9"}

RECURSIVE Pow10(_)
Pow10(k) == IF k = 0 THEN 1 ELSE 10 * Pow10(k - 1)

DigitOf(c) ==
    CASE c = "0" -> 0 [] c = "1" -> 1 [] c = "2" -> 2 [] c = "3" -> 3
      [] c = "4" -> 4 [] c = "5" -> 5 [] c = "6" -> 6 [] c = "7" -> 7
      [] c = "8" -> 8 [] c = "9" -> 9

RECURSIVE WeightedSum(_, _)
WeightedSum(body, i) ==
    IF i > Len(body) THEN 0
    ELSE DigitOf(body[i]) * Pow10(Len(body) - i) + WeightedSum(body, i + 1)

\* The integer that s, an IsInteger string, denotes.
IntegerOf(s) ==
    LET body == IF s[1] \in {"+", "-"} THEN Tail(s) ELSE s IN
    IF s[1] = "-" THEN 0 - WeightedSum(body, 1) ELSE WeightedSum(body, 1)

(***************************************************************************)
(* C1.  DefaultConsoleManager.Read("part") returns the value of the first  *)
(* of flag, environment variable and stdin token that is not empty: a      *)
(* non-empty flag value wins over the environment variable and stdin, and  *)
(* a flag given with an empty value counts as absent, so that the          *)
(* environment variable's value is returned.                               *)
(***************************************************************************)
C1_FirstNonEmptySource ==
    LET f == ParseFlags(args, <<>>) IN
    (ReadReturned /\ opts.manager = "console" /\ f.err = NoError) =>
        /\ f.part # <<>> => err = NoError /\ part = f.part
        /\ f.part = <<>> /\ envPart # <<>> => err = NoError /\ part = envPart
        /\ f.part = <<>> /\ envPart = <<>> /\ err = NoError =>
              part # <<>> /\ part = Fscanln(stdin).part
        /\ args = << <<"-", "part", "=", "1">> >> => part = <<"1">>
        /\ args = << <<"-", "part">>, <<"2">> >> => part = <<"2">>
        /\ args = << <<"-", "part", "=">> >> /\ envPart # <<>> => part = envPart

C1_Witness ==
    /\ ReadReturned
    /\ opts.manager = "console"
    /\ args = << <<"-", "part", "=", "1">> >>
    /\ envPart = <<"2">>
    /\ stdin = <<"2">>
    /\ part = <<"1">>
    /\ err = NoError

(***************************************************************************)
(* C2.  Run calls manager.Read if and only if the part left in the options *)
(* after all options were applied is 0.  With a non-zero part Read is      *)
(* never called, no prompt is written and stdin is not consumed.           *)
(***************************************************************************)
C2_ReadIffNoOverride ==
    [][ /\ (pc = "options" /\ pc' # "options") =>
              /\ opts'.part = opts.part
              /\ pc' = "read" <=> opts.part = 0
        /\ pc = "read" => readCalls' = readCalls + 1
        /\ readCalls' # readCalls =>
              /\ pc = "read"
              /\ opts.part = 0
              /\ readCalls = 0
        /\ (pc # "options" /\ opts.part # 0 /\ readCalls = 0) =>
              /\ readCalls' = 0
              /\ opts'.part = opts.part
              /\ Count(tried', "prompt") = 0
              /\ Count(tried', "usage") = 0
              /\ stdinPos' = 0
      ]_vars

C2_Witness ==
    /\ pc = "done"
    /\ readCalls = 0
    /\ opts.part = 2
    /\ opts.manager = "console"
    /\ stdin = <<"1", "\n">>
    /\ stdinPos = 0
    /\ tried = <<ResultLine(<<"2", "4">>), Line("copied", <<"2", "4">>)>>

(***************************************************************************)
(* C3.  With the part resolved to 1 Run invokes partOne exactly once, with *)
(* the input, and never partTwo; with the part resolved to 2 it invokes    *)
(* partTwo exactly once and never partOne.  The string passed to           *)
(* manager.Write is the base-10 rendering of the function's result.        *)
(***************************************************************************)
C3_ExactlyOneChallenge ==
    /\ Len(calls) <= 1
    /\ Len(written) <= 1
    /\ pc \in {"options", "read", "flag", "env", "prompt", "scan", "parse",
               "execute", "panic"} => calls = <<>> /\ written = <<>>
    /\ (pc \in {"write", "clipboard"} \/ (pc = "done" /\ opts.part \in {1, 2})) =>
          /\ opts.part = 1 => calls = << [fn |-> "partOne", input |-> input] >>
          /\ opts.part = 2 => calls = << [fn |-> "partTwo", input |-> input] >>
          /\ opts.part \in {1, 2}
    /\ (pc \in {"clipboard", "done"} /\ opts.part \in {1, 2}) => Len(written) = 1
    /\ written # <<>> =>
          /\ IsInteger(written[1])
          /\ IntegerOf(written[1]) = result
          /\ result = 42 => written[1] = <<"4", "2">>
          /\ result = 0 - 7 => written[1] = <<"-", "7">>
          /\ result = 0 => written[1] = <<"0">>

C3_Witness ==
    /\ pc = "done"
    /\ runErr = NoError
    /\ opts.part = 2
    /\ calls = << [fn |-> "partTwo", input |-> <<"a", "b", "c">>] >>
    /\ result = 0 - 7
    /\ written = << <<"-", "7">> >>

(***************************************************************************)
(* C4.  Every raw part that Read returned without an error and that is not *)
(* a base-10 integer, the empty string included, makes Run fail with       *)
(* ErrInvalidPartType, whichever manager or source produced it.            *)
(***************************************************************************)
C4_NotAnIntegerIsInvalidPartType ==
    (Resolved /\ err = NoError /\ ~IsInteger(part)) =>
        /\ pc = "done"
        /\ runErr = ErrInvalidPartType
        /\ calls = <<>>

C4_Witness ==
    /\ pc = "done"
    /\ opts.manager = "console"
    /\ envPart = <<"s", "s">>
    /\ part = <<"s", "s">>
    /\ err = NoError
    /\ runErr = ErrInvalidPartType

(***************************************************************************)
(* C5.  Every raw part that is an integer n outside {1, 2} makes the       *)
(* resolution fail with InvalidPartError whose Part is n, NewPart having   *)
(* returned Part(0) with that error; for n in {1, 2} NewPart returns       *)
(* Part(n) and no error.                                                   *)
(***************************************************************************)
C5_OutOfRangeIsInvalidPart ==
    /\ (Resolved /\ err = NoError /\ IsInteger(part)) =>
          LET n == IntegerOf(part) IN
          IF n \in {1, 2}
          THEN /\ opts.part = n
               /\ runErr.type # "InvalidPartError"
               /\ pc # "panic"
          ELSE /\ pc = "done"
               /\ runErr = InvalidPartError(n)
               /\ runErr.part = n
               /\ opts.part = 0
               /\ calls = <<>>
    /\ \A n \in (0 - 3) .. (MaxPart + 2) :
          NewPart(n) = IF n \in {1, 2}
                       THEN [part |-> n, err |-> NoError]
                       ELSE [part |-> 0, err |-> InvalidPartError(n)]

C5_Witness ==
    /\ pc = "done"
    /\ opts.manager = "console"
    /\ part = <<"-", "1">>
    /\ stdinPos = 3
    /\ runErr = InvalidPartError(0 - 1)
    /\ opts.part = 0

(***************************************************************************)
(* C6.  With the console manager and no part set by an option: when the    *)
(* flags parse with no non-empty -part value, the environment variable is  *)
(* unset or empty and the interactive read, made after its prompt, yields  *)
(* no token (end of input or an empty line), Read and Run fail with        *)
(* IOReadError wrapping ErrMissingPart and no challenge function is        *)
(* invoked.                                                                *)
(***************************************************************************)
C6_NoSourceIsMissingPart ==
    LET f == ParseFlags(args, <<>>) IN
    ( /\ ReadReturned
      /\ opts.manager = "console"
      /\ f.err = NoError
      /\ f.part = <<>>
      /\ envPart = <<>>
      /\ Count(out, "prompt") = 1
      /\ Fscanln(stdin).part = <<>> ) =>
        /\ part = <<>>
        /\ err = Error("IOReadError", "no part specified, please provide a valid part", 0)
        /\ pc \in {"parse", "done"}
        /\ pc = "done" => runErr = err
        /\ calls = <<>>
        /\ written = <<>>

C6_Witness ==
    /\ pc = "done"
    /\ opts.manager = "console"
    /\ args = << <<"-", "part", "=">> >>
    /\ envPart = <<>>
    /\ stdin = <<"\n">>
    /\ out = <<PromptLine>>
    /\ runErr = IOReadError(ErrMissingPart)

(***************************************************************************)
(* C7.  When the parse of the command-line flags fails, Read returns the   *)
(* empty string and an IOReadError wrapping the parse error at once: the   *)
(* environment variable is not used, the prompt is not written and stdin   *)
(* is not read.                                                            *)
(***************************************************************************)
C7_FlagFailureShortCircuits ==
    LET f == ParseFlags(args, <<>>) IN
    ( /\ ReadReturned
      /\ opts.manager = "console"
      /\ f.err # NoError ) =>
        /\ part = <<>>
        /\ err = Error("IOReadError", f.err.msg, 0)
        /\ args = << <<"-", "-", "test">> >> => err.msg = "flag provided but not defined"
        /\ args = << <<"-", "part">> >> => err.msg = "flag needs an argument"
        /\ pc \in {"parse", "done"}
        /\ pc = "done" => runErr = err
        /\ Count(tried, "prompt") = 0
        /\ stdinPos = 0
        /\ calls = <<>>

C7_Witness ==
    /\ pc = "done"
    /\ opts.manager = "console"
    /\ args = << <<"-", "-", "test">> >>
    /\ envPart = <<"2">>
    /\ stdin = <<"1", "\n">>
    /\ part = <<>>
    /\ runErr = Error("IOReadError", "flag provided but not defined", 0)

(***************************************************************************)
(* C8.  Once a source gave a non-empty value no later source is queried:   *)
(* the prompt is written, and stdin read, only when the flag and the       *)
(* environment variable both gave the empty string; when one of them gave  *)
(* a value Read leaves the output sink and stdin untouched.  The prompt is *)
(* written once, before stdin is read.                                     *)
(***************************************************************************)
C8_PromptOnlyAsLastResort ==
    LET f == ParseFlags(args, <<>>) IN
    /\ Count(tried, "prompt") <= 1
    /\ (Count(tried, "prompt") = 1 \/ pc \in {"prompt", "scan"} \/ stdinPos > 0) =>
          /\ opts.manager = "console"
          /\ f.err = NoError
          /\ f.part = <<>>
          /\ envPart = <<>>
    /\ pc = "prompt" => tried = <<>> /\ stdinPos = 0
    /\ pc = "scan" => tried = <<PromptLine>> /\ out = <<PromptLine>> /\ stdinPos = 0
    /\ stdinPos > 0 => out # <<>> /\ out[1] = PromptLine
    /\ ( /\ ReadReturned
         /\ opts.manager = "console"
         /\ f.err = NoError
         /\ f.part # <<>> \/ envPart # <<>> ) =>
          /\ Count(tried, "prompt") = 0
          /\ stdinPos = 0
          /\ pc = "parse" => tried = <<>> /\ out = <<>>
    /\ args = << <<"-", "part", "=", "1">> >> => Count(tried, "prompt") = 0 /\ stdinPos = 0

C8_Witness ==
    /\ pc = "parse"
    /\ opts.manager = "console"
    /\ out = <<PromptLine>>
    /\ stdin = <<"1", "\n">>
    /\ stdinPos = 2
    /\ part = <<"1">>

(***************************************************************************)
(* C9.  When the output sink rejects the result line,                      *)
(* DefaultConsoleManager.Write returns an IOWriteError wrapping the sink's *)
(* error, attempts no clipboard copy and writes no status line, and Run    *)
(* returns that error.                                                     *)
(***************************************************************************)
C9_ResultWriteFailureAborts ==
    ( /\ opts.manager = "console"
      /\ written # <<>>
      /\ Count(out, "result") = 0 ) =>
        /\ pc = "done"
        /\ runErr = Error("IOWriteError", "write failed", 0)
        /\ clipboard = <<>>
        /\ Count(tried, "copied") = 0
        /\ Count(tried, "cliperr") = 0
        /\ tried[Len(tried)].kind = "result"

C9_Witness ==
    /\ pc = "done"
    /\ opts.manager = "console"
    /\ envDisable = ""
    /\ written = << <<"4", "2">> >>
    /\ out = <<>>
    /\ runErr = IOWriteError(ErrWriteFailed)

(***************************************************************************)
(* C10.  A clipboard failure is never fatal: once the result line was      *)
(* written, Write and Run return nil whatever the copy did, and, when the  *)
(* copy is not disabled, exactly one status line is written after the      *)
(* result line, "Error copying to clipboard" when the copy failed and      *)
(* "Copied to clipboard: <result>" when it succeeded.  A rejected write of *)
(* the status line is ignored too.                                         *)
(***************************************************************************)
C10_ClipboardFailureNotFatal ==
    ( /\ pc = "done"
      /\ opts.manager = "console"
      /\ Count(out, "result") = 1 ) =>
        LET n == Len(tried)
            IsStatus(l) == l.kind \in {"copied", "cliperr"}
        IN
        /\ runErr = NoError
        /\ envDisable # "true" =>
              /\ n >= 2
              /\ tried[n - 1] = ResultLine(written[1])
              /\ Len(SelectSeq(tried, IsStatus)) = 1
              /\ clipboard = <<>> => tried[n] = Line("cliperr", <<>>)
              /\ clipboard # <<>> =>
                    /\ clipboard = <<written[1]>>
                    /\ tried[n] = Line("copied", written[1])
              /\ SelectSeq(out, IsStatus) \in { <<>>, <<tried[n]>> }
              /\ SelectSeq(out, IsStatus) # <<>> => out[Len(out)] = tried[n]

C10_Witness ==
    /\ pc = "done"
    /\ opts.manager = "console"
    /\ envDisable = "false"
    /\ clipboard = <<>>
    /\ runErr = NoError
    /\ out = <<ResultLine(<<"4", "2">>), Line("cliperr", <<>>)>>

(***************************************************************************)
(* C11.  When GOAOC_DISABLE_COPY_CLIPBOARD is exactly "true", Write emits  *)
(* only the result line: the clipboard is not touched and no status line   *)
(* is written.  For every other value of the variable (unset, "false",     *)
(* "TRUE", "1") the copy is attempted and a status line is written.        *)
(***************************************************************************)
C11_DisabledOnlyByTrue ==
    ( /\ pc = "done"
      /\ opts.manager = "console"
      /\ Count(out, "result") = 1 ) =>
        LET n == Len(tried)
            statusTried == Count(tried, "copied") + Count(tried, "cliperr")
            statusOut == Count(out, "copied") + Count(out, "cliperr")
        IN
        /\ envDisable = "true" =>
              /\ clipboard = <<>>
              /\ statusTried = 0
              /\ statusOut = 0
              /\ tried[n] = ResultLine(written[1])
              /\ out[Len(out)] = ResultLine(written[1])
        /\ envDisable \in {"", "false", "TRUE", "1"} =>
              /\ statusTried = 1
              /\ tried[n].kind \in {"copied", "cliperr"}
              /\ tried[n].kind = "copied" <=> clipboard = <<written[1]>>
              /\ tried[n].kind = "cliperr" <=> clipboard = <<>>
        /\ envDisable # "true" => statusTried = 1

C11_Witness ==
    /\ pc = "done"
    /\ opts.manager = "console"
    /\ envDisable = "true"
    /\ runErr = NoError
    /\ clipboard = <<>>
    /\ out = <<ResultLine(<<"4", "2">>)>>
    /\ tried = out

(***************************************************************************)
(* C12.  When the interactive read of the part fails for a reason other    *)
(* than end of input (an empty line, extra tokens on the line), the        *)
(* resolution fails with an input-read failure that Run returns unchanged; *)
(* only end of input is treated as a missing part, and a failed read       *)
(* never yields an accepted part.                                          *)
(***************************************************************************)
C12_FailedScanIsReadFailure ==
    LET r == Fscanln(stdin)
        scanned == /\ ReadReturned
                   /\ opts.manager = "console"
                   /\ Count(out, "prompt") = 1
    IN
    /\ (scanned /\ r.err \notin {"", "EOF"}) =>
          /\ err.type = "IOReadError"
          /\ err # IOReadError(ErrMissingPart)
          /\ pc \in {"parse", "done"}
          /\ pc = "done" => runErr = err
          /\ calls = <<>>
    /\ (scanned /\ r.err = "EOF") => err = IOReadError(ErrMissingPart)

(***************************************************************************)
(* C13.  In every execution of Run, for every combination of options       *)
(* (WithPart(n) for any integer n included) and every manager, the part    *)
(* that reaches executeChallenge is 1 or 2, so that the default branch of  *)
(* its switch (the panic) is never reached: an out-of-range part is always *)
(* reported as a returned error before the dispatch.                       *)
(***************************************************************************)
C13_DispatchedPartIsValid ==
    /\ pc # "panic"
    /\ pc \in {"execute", "write", "clipboard"} => opts.part \in {1, 2}
    /\ (pc = "done" /\ opts.part \notin {1, 2}) =>
          /\ runErr # NoError
          /\ calls = <<>>

(***************************************************************************)
(* C14.  Whenever the resolution of the part fails in Run (manager.Read    *)
(* returns an error, the raw value is not an integer, or the integer is    *)
(* outside {1, 2}), Run returns that error, neither challenge function is  *)
(* invoked and manager.Write is never called: no result line and no        *)
(* clipboard status line is emitted and the clipboard is unchanged.        *)
(***************************************************************************)
C14_FailedResolutionEmitsNothing ==
    LET failure ==
            IF err # NoError THEN err
            ELSE IF ~IsInteger(part) THEN ErrInvalidPartType
            ELSE IF IntegerOf(part) \notin {1, 2} THEN InvalidPartError(IntegerOf(part))
            ELSE NoError
    IN
    (Resolved /\ failure # NoError) =>
        /\ pc = "done"
        /\ runErr = failure
        /\ calls = <<>>
        /\ written = <<>>
        /\ Count(tried, "result") = 0
        /\ Count(tried, "copied") = 0
        /\ Count(tried, "cliperr") = 0
        /\ clipboard = <<>>

C14_Witness ==
    /\ pc = "done"
    /\ opts.manager = "custom"
    /\ part = <<"2">>
    /\ err = ErrCustomRead
    /\ runErr = ErrCustomRead
    /\ calls = <<>>
    /\ written = <<>>
    /\ out = <<>>

(***************************************************************************)
(* Vocabulary of the order of the output                                   *)
(***************************************************************************)
\* The kinds of the lines of seq, the two clipboard status lines taken as
\* one kind.
Kinds(seq) ==
    [i \in DOMAIN seq |->
        IF seq[i].kind \in {"copied", "cliperr"} THEN "status" ELSE seq[i].kind]

\* The prefixes of [prompt (optional), result, status (optional)].
ReportPrefixes ==
    { <<>>,
      <<"prompt">>,
      <<"prompt", "result">>,
      <<"prompt", "result", "status">>,
      <<"result">>,
      <<"result", "status">> }

\* Position by position: the resolution (the prompt included) is over
\* before a challenge function is invoked, the function returned before the
\* result line is written, and the status line comes after the result line.
InOrder ==
    /\ pc \in {"options", "read", "flag", "env", "prompt", "scan", "parse",
               "execute", "panic"} =>
          /\ calls = <<>>
          /\ Count(tried, "result") = 0
          /\ Count(tried, "copied") + Count(tried, "cliperr") = 0
    /\ pc = "write" =>
          /\ Len(calls) = 1
          /\ Count(tried, "result") = 0
          /\ Count(tried, "copied") + Count(tried, "cliperr") = 0
    /\ pc = "clipboard" =>
          /\ Len(calls) = 1
          /\ tried[Len(tried)].kind = "result"
          /\ out[Len(out)].kind = "result"
          /\ Count(tried, "copied") + Count(tried, "cliperr") = 0
    /\ Count(tried, "prompt") > 0 => tried[1] = PromptLine
    /\ Count(tried, "result") <= 1
    /\ Count(out, "result") <= 1

(***************************************************************************)
(* C15, as claimed.  Within one Run with the default console manager the   *)
(* events occur in a fixed order: resolution (the prompt included), then   *)
(* the challenge function, then the result line, then the clipboard status *)
(* line.  The output sink always holds a prefix of [prompt line            *)
(* (optional), result line, clipboard status line (optional)] and the      *)
(* result line appears at most once.                                       *)
(***************************************************************************)
C15_SinkHoldsReportPrefix ==
    opts.manager # "custom" =>
        /\ InOrder
        /\ Kinds(out) \in ReportPrefixes

(***************************************************************************)
(* C15, amended.  The events occur in that fixed order, and the output     *)
(* sink always holds a prefix of [prompt line (optional), result line,     *)
(* clipboard status line (optional)], except that a failed parse of the    *)
(* command-line flags writes the flag package's error and usage lines to   *)
(* the sink, after which nothing else is written; the result line appears  *)
(* at most once.                                                           *)
(***************************************************************************)
C15_SinkHoldsReportPrefixOrUsage ==
    opts.manager # "custom" =>
        /\ InOrder
        /\ \/ Kinds(out) \in ReportPrefixes
           \/ /\ readCalls = 1
              /\ ParseFlags(args, <<>>).err # NoError
              /\ \A i \in DOMAIN out : out[i].kind \in {"flagerr", "usage", "defaults"}
              /\ Len(out) <= 3
              /\ pc \in {"parse", "done"}
              /\ calls = <<>>

C15_Witness ==
    /\ pc = "done"
    /\ opts.manager = "console"
    /\ runErr = NoError
    /\ stdin = <<"1", "\n">>
    /\ calls = << [fn |-> "partOne", input |-> <<"a", "b", "c">>] >>
    /\ out = <<PromptLine, ResultLine(<<"4", "2">>), Line("copied", <<"4", "2">>)>>

====
